---- MODULE Spec2Model ----
(***************************************************************************)
(* Model of rupypy/utils/glob.py: the brace expander (Glob.compile), the   *)
(* pattern compiler (Glob.single_compile, Glob.path_split), and the node   *)
(* execution engine (the call methods of the Glob.Node subclasses) walking *)
(* a small filesystem.                                                     *)
(*                                                                         *)
(* Strings are sequences of one-character strings.  Positions inside       *)
(* compile are kept 0-based as in the source (At, Slice).  A raised        *)
(* exception ends the call with pc = "raised" and its class in error.      *)
(***************************************************************************)
EXTENDS Integers, Sequences, FiniteSets, TLC

VARIABLES
    pattern,    \* glob(pattern, ...): the pattern string
    flags,      \* glob(..., flags): FNM_* bits
    fsid,       \* which filesystem of FileSystems the call runs against
    pc,         \* "start" | "run" | "done" | "raised"
    error,      \* class of the exception that left glob, or "none"
    expanded,   \* the strings handed to single_compile, in call order
    patterns,   \* compile's result list: one chain of nodes per entry
    chainno,    \* index of the chain run() is walking (0 before the first)
    frames,     \* the stack of pending node.call invocations, innermost last
    matches,    \* env.matches
    owner,      \* owner[i]: index of the chain whose walk appended matches[i]
    returned,   \* "pending" | "list" | "None": what glob returned
    retval,     \* the returned list when returned = "list"
    contcalls,  \* continuation invocations made by ** nodes: [scope, seed, path, node]
    pushes,     \* worklist pushes made by ** nodes: [scope, path]
    scopes      \* number of ** node calls started so far

vars == <<pattern, flags, fsid, pc, error, expanded, patterns, chainno, frames,
          matches, owner, returned, retval, contcalls, pushes, scopes>>

----------------------------------------------------------------------------
(* Strings *)

FNM_NOESCAPE == 1
FNM_DOTMATCH == 4

HasFlag(f, bit) == (f \div bit) % 2 = 1

At(s, i) == s[i + 1]
Slice(s, a, b) == SubSeq(s, a + 1, b)
Last(s) == s[Len(s)]
Front(s) == SubSeq(s, 1, Len(s) - 1)
SLASH == <<"/">>

IsPrefix(s, t) == Len(s) <= Len(t) /\ SubSeq(t, 1, Len(s)) = s

\* str.find(c): 0-based index of the first c, -1 when absent
RECURSIVE FindFrom(_, _, _)
FindFrom(s, c, i) ==
    IF i >= Len(s) THEN -1
    ELSE IF At(s, i) = c THEN i ELSE FindFrom(s, c, i + 1)

Find(s, c) == FindFrom(s, c, 0)

----------------------------------------------------------------------------
(* The filesystem behind os.path.exists, os.path.isdir and os.listdir.     *)
(* A filesystem is a sequence of entries; entry 1 is "/".  os.listdir      *)
(* returns the children in entry order.                                    *)

MaxLinks == 2   \* symbolic links one path resolution may traverse (ELOOP)

Ent(parent, name, kind, target, readable) ==
    [parent |-> parent, name |-> name, kind |-> kind, target |-> target,
     readable |-> readable]

\* a tree without links: x, p/x, p/q/x, .h/x, a/b/c, ab/c, a plain file v
FS_Tree ==
    [cwd |-> 1,
     ents |-> << Ent(0, <<>>, "dir", 0, TRUE),
                 Ent(1, <<"x">>, "dir", 0, TRUE),
                 Ent(1, <<"p">>, "dir", 0, TRUE),
                 Ent(3, <<"x">>, "dir", 0, TRUE),
                 Ent(3, <<"q">>, "dir", 0, TRUE),
                 Ent(5, <<"x">>, "dir", 0, TRUE),
                 Ent(1, <<".", "h">>, "dir", 0, TRUE),
                 Ent(7, <<"x">>, "dir", 0, TRUE),
                 Ent(1, <<"v">>, "file", 0, TRUE),
                 Ent(1, <<"a">>, "dir", 0, TRUE),
                 Ent(10, <<"b">>, "dir", 0, TRUE),
                 Ent(11, <<"c">>, "file", 0, TRUE),
                 Ent(1, <<"a", "b">>, "dir", 0, TRUE),
                 Ent(13, <<"c">>, "file", 0, TRUE) >>]

\* p/l is a symbolic link to its own parent directory p; the call runs in /w
FS_Link ==
    [cwd |-> 2,
     ents |-> << Ent(0, <<>>, "dir", 0, TRUE),
                 Ent(1, <<"w">>, "dir", 0, TRUE),
                 Ent(2, <<"p">>, "dir", 0, TRUE),
                 Ent(3, <<"l">>, "link", 3, TRUE),
                 Ent(3, <<"x">>, "file", 0, TRUE),
                 Ent(1, <<"v">>, "file", 0, TRUE) >>]

\* d/u may be entered but not listed (mode 0111); v and x are plain files
FS_Denied ==
    [cwd |-> 1,
     ents |-> << Ent(0, <<>>, "dir", 0, TRUE),
                 Ent(1, <<"d">>, "dir", 0, TRUE),
                 Ent(2, <<"u">>, "dir", 0, FALSE),
                 Ent(3, <<"x">>, "dir", 0, TRUE),
                 Ent(2, <<"x">>, "dir", 0, TRUE),
                 Ent(1, <<"v">>, "file", 0, TRUE),
                 Ent(1, <<"x">>, "file", 0, TRUE) >>]

\* the working directory itself may not be listed
FS_CwdDenied ==
    [cwd |-> 2,
     ents |-> << Ent(0, <<>>, "dir", 0, TRUE),
                 Ent(1, <<"w">>, "dir", 0, FALSE),
                 Ent(2, <<"x">>, "dir", 0, TRUE) >>]

FileSystems == << FS_Tree, FS_Link, FS_Denied, FS_CwdDenied >>

HasLinks(fs) == \E i \in 1..Len(fs.ents) : fs.ents[i].kind = "link"
AllReadable(fs) == \A i \in 1..Len(fs.ents) : fs.ents[i].readable

Ids(fs) == [i \in 1..Len(fs.ents) |-> i]
Children(fs, d) == SelectSeq(Ids(fs), LAMBDA i : fs.ents[i].parent = d)

Lookup(fs, d, name) ==
    LET c == SelectSeq(Children(fs, d), LAMBDA i : fs.ents[i].name = name)
    IN  IF c = <<>> THEN 0 ELSE c[1]

\* the components of a path string: the maximal runs free of "/"
RECURSIVE Components(_, _)
Components(s, cur) ==
    IF s = <<>> THEN (IF cur = <<>> THEN <<>> ELSE <<cur>>)
    ELSE IF Head(s) = "/"
         THEN (IF cur = <<>> THEN <<>> ELSE <<cur>>) \o Components(Tail(s), <<>>)
         ELSE Components(Tail(s), Append(cur, Head(s)))

NoEntry == [ok |-> FALSE, id |-> 0, links |-> 0]

\* follow the symbolic links at entry id; more than MaxLinks of them fail
RECURSIVE Follow(_, _, _)
Follow(fs, id, links) ==
    IF fs.ents[id].kind = "link"
    THEN IF links >= MaxLinks THEN NoEntry
         ELSE Follow(fs, fs.ents[id].target, links + 1)
    ELSE [ok |-> TRUE, id |-> id, links |-> links]

RECURSIVE WalkPath(_, _, _, _)
WalkPath(fs, id, comps, links) ==
    IF comps = <<>> THEN [ok |-> TRUE, id |-> id, links |-> links]
    ELSE IF fs.ents[id].kind # "dir" THEN NoEntry
    ELSE IF Head(comps) = <<".">> THEN WalkPath(fs, id, Tail(comps), links)
    ELSE LET c == Lookup(fs, id, Head(comps))
         IN  IF c = 0 THEN NoEntry
             ELSE LET f == Follow(fs, c, links)
                  IN  IF f.ok THEN WalkPath(fs, f.id, Tail(comps), f.links)
                      ELSE NoEntry

\* stat(path), following links; the empty path names nothing
Resolve(fs, path) ==
    IF path = <<>> THEN NoEntry
    ELSE WalkPath(fs, IF Head(path) = "/" THEN 1 ELSE fs.cwd,
                  Components(path, <<>>), 0)

exists(fs, path) == Resolve(fs, path).ok
isdir(fs, path) ==
    LET r == Resolve(fs, path) IN r.ok /\ fs.ents[r.id].kind = "dir"
ThroughLink(fs, path) ==
    LET r == Resolve(fs, path) IN r.ok /\ r.links > 0

\* os.listdir(path): [ok, names]; ok = FALSE stands for OSError
listdir(fs, path) ==
    LET r == Resolve(fs, path)
    IN  IF r.ok /\ fs.ents[r.id].kind = "dir" /\ fs.ents[r.id].readable
        THEN [ok |-> TRUE,
              names |-> [i \in 1..Len(Children(fs, r.id)) |->
                            fs.ents[Children(fs, r.id)[i]].name]]
        ELSE [ok |-> FALSE, names |-> <<>>]

DOT == <<".">>
PathOrDot(path) == IF path # <<>> THEN path ELSE DOT

----------------------------------------------------------------------------
(* fnmatch.fnmatch(name, pat) on POSIX: "*" any run, "?" any one character,*)
(* "[seq]" / "[!seq]" one character in / not in seq, anything else itself. *)
(* The candidate's leading "." gets no special treatment.                  *)

\* index (1-based) of the "]" closing the class that starts after pat[1] = "[",
\* 0 when the "[" is not closed
RECURSIVE ClassClose(_, _)
ClassClose(pat, j) ==
    IF j > Len(pat) THEN 0
    ELSE IF pat[j] = "]" THEN j ELSE ClassClose(pat, j + 1)

ClassEnd(pat) ==
    LET j1 == IF Len(pat) >= 2 /\ pat[2] = "!" THEN 3 ELSE 2
        j2 == IF j1 <= Len(pat) /\ pat[j1] = "]" THEN j1 + 1 ELSE j1
    IN  ClassClose(pat, j2)

RECURSIVE fnmatch(_, _)
fnmatch(name, pat) ==
    IF pat = <<>> THEN name = <<>>
    ELSE LET c == Head(pat)
             rest == Tail(pat)
         IN  IF c = "*"
             THEN fnmatch(name, rest) \/ (name # <<>> /\ fnmatch(Tail(name), pat))
             ELSE IF c = "?"
             THEN name # <<>> /\ fnmatch(Tail(name), rest)
             ELSE IF c = "[" /\ ClassEnd(pat) > 0
             THEN LET e == ClassEnd(pat)
                      neg == pat[2] = "!"
                      stuff == SubSeq(pat, IF neg THEN 3 ELSE 2, e - 1)
                      inset == \E k \in 1..Len(stuff) : stuff[k] = Head(name)
                  IN  /\ name # <<>>
                      /\ (IF neg THEN ~inset ELSE inset)
                      /\ fnmatch(Tail(name), SubSeq(pat, e + 1, Len(pat)))
             ELSE name # <<>> /\ Head(name) = c /\ fnmatch(Tail(name), rest)

----------------------------------------------------------------------------
(* Glob.path_split *)

\* string[i:] cut at every match of "/+": segment, separator, segment, ...
\* ending with the (possibly empty) rest after the last separator
RECURSIVE Tokens(_, _, _)
Tokens(s, cur, insep) ==
    IF s = <<>> THEN (IF insep THEN <<cur, <<>>>> ELSE <<cur>>)
    ELSE IF (Head(s) = "/") = insep
         THEN Tokens(Tail(s), Append(cur, Head(s)), insep)
         ELSE <<cur>> \o Tokens(Tail(s), <<Head(s)>>, ~insep)

\* while len(ret[-1]) == 0: ret.pop()  -- indexes the empty list once every
\* token is gone
RECURSIVE DropEmptyTail(_)
DropEmptyTail(ret) ==
    IF ret = <<>> THEN [err |-> "IndexError", parts |-> <<>>]
    ELSE IF Len(Last(ret)) = 0 THEN DropEmptyTail(Front(ret))
    ELSE [err |-> "none", parts |-> ret]

path_split(string) == DropEmptyTail(Tokens(string, <<>>, FALSE))

----------------------------------------------------------------------------
(* Glob.single_compile *)

ConstChars ==
    {"a", "b", "c", "d", "e", "f", "g", "h", "i", "j", "k", "l", "m", "n", "o",
     "p", "q", "r", "s", "t", "u", "v", "w", "x", "y", "z",
     "A", "B", "C", "D", "E", "F", "G", "H", "I", "J", "K", "L", "M", "N", "O",
     "P", "Q", "R", "S", "T", "U", "V", "W", "X", "Y", "Z",
     "0", "1", "2", "3", "4", "5", "6", "7", "8", "9", ".", "_"}

\* "^[a-zA-Z0-9._]+$" finds a match in file
IsConstantName(file) ==
    Len(file) > 0 /\ \A i \in 1..Len(file) : file[i] \in ConstChars

\* "^[^\*\?\]]+" finds a match in dir: some leading run is free of * ? ]
LeadingLiteral(dir) == Len(dir) > 0 /\ dir[1] \notin {"*", "?", "]"}

Suffixes == << <<>> >>     \* suffixes = [""]

Node(kind, glob) == [kind |-> kind, glob |-> glob, sep |-> <<>>]

\* last.set_separator(value) on the chain's outermost node
SetSeparator(chain, value) ==
    [chain EXCEPT ![1] = [chain[1] EXCEPT !.sep = value]]

\* Node.get_separator
get_separator(sep) == IF sep # <<>> THEN sep ELSE SLASH

\* the leaf node; ConstantEntry.__init__ calls itself with one argument short
LeafNode(glob, parts) ==
    IF Last(glob) = "/"
    THEN [err |-> "none", parts |-> parts, chain |-> <<Node("DirectoriesOnly", <<>>)>>]
    ELSE IF IsConstantName(Last(parts))
    THEN [err |-> "TypeError", parts |-> Front(parts), chain |-> <<>>]
    ELSE [err |-> "none", parts |-> Front(parts),
          chain |-> <<Node("EntryMatch", Last(parts))>>]

\* the folding loop of a literal dir: absorbs the literal segments before it
RECURSIVE FoldLiteral(_, _)
FoldLiteral(parts, dir) ==
    LET partidx == Len(parts) - 2
    IN  IF partidx < 0 THEN [err |-> "AssertionError", parts |-> parts, dir |-> dir]
        ELSE IF LeadingLiteral(At(parts, partidx))
        THEN FoldLiteral(SubSeq(parts, 1, Len(parts) - 2),
                         At(parts, partidx) \o Last(parts) \o dir)
        ELSE [err |-> "none", parts |-> parts, dir |-> dir]

\* while parts: ...   chain holds the nodes built so far, outermost first
RECURSIVE BuildChain(_, _)
BuildChain(parts, chain) ==
    IF parts = <<>> THEN [err |-> "none", chain |-> chain]
    ELSE LET sep == Last(parts)
             dir == parts[Len(parts) - 1]
             rest == SubSeq(parts, 1, Len(parts) - 2)
             last == SetSeparator(chain, sep)
         IN  IF dir = <<"*", "*">>
             THEN BuildChain(rest,
                     <<Node(IF rest # <<>> THEN "RecursiveDirectories"
                            ELSE "StartRecursiveDirectories", <<>>)>> \o last)
             ELSE IF LeadingLiteral(dir)
             THEN LET f == FoldLiteral(rest, dir)
                  IN  IF f.err # "none" THEN [err |-> f.err, chain |-> <<>>]
                      ELSE BuildChain(f.parts,
                              <<Node("ConstantDirectory", f.dir)>> \o last)
             ELSE IF Len(dir) > 0
             THEN BuildChain(rest, <<Node("DirectoryMatch", dir)>> \o last)
             ELSE BuildChain(rest, last)

single_compile(glob) ==
    LET split == path_split(glob)
    IN  IF split.err # "none" THEN [err |-> split.err, chain |-> <<>>]
        ELSE LET leaf == LeafNode(glob, split.parts)
             IN  IF leaf.err # "none" THEN [err |-> leaf.err, chain |-> <<>>]
                 ELSE LET b == BuildChain(leaf.parts, leaf.chain)
                      IN  IF b.err # "none" THEN b
                          ELSE IF glob[1] = "/"
                          THEN [err |-> "none",
                                chain |-> <<Node("RootDirectory", <<>>)>> \o b.chain]
                          ELSE b

----------------------------------------------------------------------------
(* Glob.compile *)

\* the character the alternatives of a brace body are split at
AltSeparator == "?"

\* the first loop: finds lbrace and rbrace, -1 when there is none
RECURSIVE ScanBrace(_, _, _, _, _)
ScanBrace(pat, escape, i, nest, lbrace) ==
    IF i >= Len(pat) THEN [err |-> "none", lbrace |-> lbrace, rbrace |-> -1]
    ELSE LET char == At(pat, i)
             lb == IF char = "{" THEN i ELSE lbrace
             n == IF char = "{" THEN nest + 1
                  ELSE IF char = "}" THEN nest - 1 ELSE nest
         IN  IF n = 0 THEN [err |-> "none", lbrace |-> lb, rbrace |-> i]
             ELSE IF char = "\\" /\ escape
             THEN [err |-> "NameError", lbrace |-> lb, rbrace |-> -1]
             ELSE ScanBrace(pat, escape, i + 1, n, lb)

\* the inner loop of the second part: where the alternative starting at pos ends
RECURSIVE AltEnd(_, _, _, _, _)
AltEnd(pat, escape, rbrace, pos, nest) ==
    IF pos < rbrace /\ ~(At(pat, pos) = AltSeparator /\ nest = 0)
    THEN LET n == IF At(pat, pos) = "{" THEN nest + 1
                  ELSE IF At(pat, pos) = "}" THEN nest - 1 ELSE nest
         IN  IF At(pat, pos) = "\\" /\ escape
             THEN IF pos + 1 = rbrace THEN pos + 1
                  ELSE AltEnd(pat, escape, rbrace, pos + 2, n)
             ELSE AltEnd(pat, escape, rbrace, pos + 1, n)
    ELSE pos

\* the outer loop: every brace_pattern, in the order it is compiled
RECURSIVE BracePatterns(_, _, _, _, _)
BracePatterns(pat, escape, lbrace, rbrace, pos) ==
    IF pos < rbrace
    THEN LET last == pos + 1
             e == AltEnd(pat, escape, rbrace, last, 0)
         IN  << Slice(pat, 0, lbrace) \o Slice(pat, last, e)
                  \o Slice(pat, rbrace + 1, Len(pat)) >>
             \o BracePatterns(pat, escape, lbrace, rbrace, e)
    ELSE <<>>

NoChains == [err |-> "none", chains |-> <<>>, srcs |-> <<>>]

\* compile(pattern, flags, patterns): the chains appended to patterns, the
\* strings they were compiled from, and the exception that ended it, if any
RECURSIVE compile(_, _)
RECURSIVE CompileEach(_, _, _)
CompileEach(pats, f, acc) ==
    IF pats = <<>> THEN acc
    ELSE LET c == compile(Head(pats), f)
             sofar == [err |-> c.err, chains |-> acc.chains \o c.chains,
                       srcs |-> acc.srcs \o c.srcs]
         IN  IF c.err # "none" THEN sofar ELSE CompileEach(Tail(pats), f, sofar)

compile(pat, f) ==
    LET escape == ~HasFlag(f, FNM_NOESCAPE)
        i == Find(pat, "{")
        scan == IF i > -1 THEN ScanBrace(pat, escape, i, 0, -1)
                ELSE [err |-> "none", lbrace |-> -1, rbrace |-> -1]
    IN  IF scan.err # "none"
        THEN [err |-> scan.err, chains |-> <<>>, srcs |-> <<>>]
        ELSE IF scan.lbrace > -1 /\ scan.rbrace > -1
        THEN CompileEach(BracePatterns(pat, escape, scan.lbrace, scan.rbrace,
                                       scan.lbrace), f, NoChains)
        ELSE LET node == single_compile(pat)
             IN  IF node.err # "none"
                 THEN [err |-> node.err, chains |-> <<>>, srcs |-> <<pat>>]
                 ELSE [err |-> "none", chains |-> <<node.chain>>, srcs |-> <<pat>>]

----------------------------------------------------------------------------
(* The node execution engine *)

FS == FileSystems[fsid]
Chain == patterns[chainno]
Top == frames[Len(frames)]
TopNode == Chain[Top.idx]

\* Node.path_join, sep being the node's separator attribute
path_join(parent, ent, sep) ==
    IF parent = <<>> THEN ent
    ELSE IF parent = SLASH THEN SLASH \o ent
    ELSE parent \o get_separator(sep) \o ent

\* Match.ismatch
ismatch(string, glob) == fnmatch(string, glob)

\* RecursiveDirectories.allow_dots
allow_dots(f) == HasFlag(f, FNM_DOTMATCH)

\* env.matches.append, for each path of new in turn
PrependMatches(m, new) == new \o m
AppendMatches(m, new) == m \o new

\* one pending node.call(env, path); sep is the node object's separator,
\* phase/ents/stack/cur are the locals of DirectoryMatch.call and of
\* call_with_stack, intry tells that the pending inner call was made inside
\* call_with_stack's try block
NewFrame(idx, path, sep) ==
    [idx |-> idx, path |-> path, sep |-> sep, phase |-> "new", ents |-> <<>>,
     stack |-> <<>>, cur |-> <<>>, intry |-> FALSE, scope |-> 0]

\* self.next.call(env, path)
CallNext(f, path) == NewFrame(f.idx + 1, path, Chain[f.idx + 1].sep)

\* switched = copy.copy(self.next); switched.set_separator(self.separator);
\* switched.call(env, path)
CallSwitched(f, path) == NewFrame(f.idx + 1, path, f.sep)

\* the innermost pending call_with_stack whose try block encloses the top call
Handler ==
    LET cand == {j \in 1..(Len(frames) - 1) : frames[j].intry}
    IN  IF cand = {} THEN 0 ELSE CHOOSE j \in cand : \A k \in cand : k <= j

\* what one step of the top call does: the new frame stack, the paths it
\* appends, the exception it raises, and the ** bookkeeping
Outcome(frs) ==
    [frames |-> frs, new |-> <<>>, err |-> "none", calls |-> <<>>,
     push |-> <<>>, scoped |-> FALSE]

Returns == Outcome(Front(frames))
Raises(err) == [Outcome(<<>>) EXCEPT !.err = err]
Continues(f) == Outcome(Append(Front(frames), f))
Calls(f, callee) == Outcome(Front(frames) \o <<f, callee>>)

Apply(o) ==
    /\ matches' = AppendMatches(matches, o.new)
    /\ owner' = owner \o [i \in 1..Len(o.new) |-> chainno]
    /\ contcalls' = contcalls \o o.calls
    /\ pushes' = pushes \o o.push
    /\ scopes' = IF o.scoped THEN scopes + 1 ELSE scopes
    /\ IF o.err = "none"
       THEN frames' = o.frames /\ UNCHANGED <<pc, error>>
       ELSE IF o.err = "OSError" /\ Handler > 0
       THEN /\ frames' = Append(SubSeq(frames, 1, Handler - 1),
                                [frames[Handler] EXCEPT !.ents = <<>>,
                                                        !.intry = FALSE])
            /\ UNCHANGED <<pc, error>>
       ELSE frames' = <<>> /\ pc' = "raised" /\ error' = o.err
    /\ UNCHANGED <<pattern, flags, fsid, expanded, patterns, chainno, returned,
                   retval>>

Walking(kind) == pc = "run" /\ frames # <<>> /\ TopNode.kind = kind

\* RootDirectory.call
RootDirectoryCall ==
    /\ Walking("RootDirectory")
    /\ Apply(Continues(CallNext(Top, SLASH)))

\* ConstantDirectory.call
ConstantDirectoryCall ==
    /\ Walking("ConstantDirectory")
    /\ Apply(Continues(CallNext(Top, path_join(Top.path, TopNode.glob, Top.sep))))

\* the loops of EntryMatch.call over entries and suffixes
RECURSIVE MatchSuffixes(_, _, _, _, _)
MatchSuffixes(f, sufs, glob, path, sep) ==
    IF sufs = <<>> THEN <<>>
    ELSE (IF ismatch(f \o Head(sufs), glob)
          THEN <<path_join(path, f \o Head(sufs), sep)>> ELSE <<>>)
         \o MatchSuffixes(f, Tail(sufs), glob, path, sep)

RECURSIVE MatchEntries(_, _, _, _)
MatchEntries(entries, glob, path, sep) ==
    IF entries = <<>> THEN <<>>
    ELSE MatchSuffixes(Head(entries), Suffixes, glob, path, sep)
         \o MatchEntries(Tail(entries), glob, path, sep)

\* the paths EntryMatch.call appends
EntryMatchPaths(fs, path, glob, sep) ==
    IF path # <<>> /\ ~exists(fs, path \o <<"/", ".">>) THEN <<>>
    ELSE LET l == listdir(fs, PathOrDot(path))
         IN  IF ~l.ok THEN <<>> ELSE MatchEntries(l.names, glob, path, sep)

EntryMatchCall ==
    /\ Walking("EntryMatch")
    /\ Apply([Returns EXCEPT
                !.new = EntryMatchPaths(FS, Top.path, TopNode.glob, Top.sep)])

\* the paths DirectoriesOnly.call appends
DirectoriesOnlyPaths(fs, path) ==
    IF path # <<>> /\ exists(fs, path \o <<"/", ".">>)
    THEN <<path \o SLASH>> ELSE <<>>

DirectoriesOnlyCall ==
    /\ Walking("DirectoriesOnly")
    /\ Apply([Returns EXCEPT !.new = DirectoriesOnlyPaths(FS, Top.path)])

\* DirectoryMatch.call up to the listing
DirectoryMatchCall ==
    /\ Walking("DirectoryMatch")
    /\ Top.phase = "new"
    /\ Apply(IF Top.path # <<>> /\ ~exists(FS, Top.path) THEN Returns
             ELSE LET l == listdir(FS, PathOrDot(Top.path))
                  IN  IF ~l.ok THEN Raises("OSError")
                      ELSE Continues([Top EXCEPT !.phase = "iter",
                                                 !.ents = l.names]))

\* DirectoryMatch.call: one round of its for loop
DirectoryMatchEntry ==
    /\ Walking("DirectoryMatch")
    /\ Top.phase = "iter"
    /\ Apply(IF Top.ents = <<>> THEN Returns
             ELSE LET ent == Head(Top.ents)
                      full == path_join(Top.path, ent, Top.sep)
                      rest == [Top EXCEPT !.ents = Tail(Top.ents)]
                  IN  IF ismatch(ent, TopNode.glob) /\ isdir(FS, full)
                      THEN Calls(rest, CallNext(Top, full))
                      ELSE Continues(rest))

ContCall(f, scope, seed, path) ==
    <<[scope |-> scope, seed |-> seed, path |-> path, sep |-> f.sep]>>
Pushed(scope, path) == <<[scope |-> scope, path |-> path]>>

\* RecursiveDirectories.call, and call_with_stack up to its while loop
RecursiveDirectoriesCall ==
    /\ Walking("RecursiveDirectories")
    /\ Top.phase = "new"
    /\ Apply(IF ~exists(FS, Top.path) THEN Returns
             ELSE [Calls([Top EXCEPT !.phase = "loop", !.stack = <<Top.path>>,
                                     !.scope = scopes + 1],
                         CallSwitched(Top, Top.path))
                   EXCEPT !.scoped = TRUE,
                          !.calls = ContCall(Top, scopes + 1, Top.path, Top.path),
                          !.push = Pushed(scopes + 1, Top.path)])

\* StartRecursiveDirectories.call up to the listing of "."
StartRecursiveDirectoriesCall ==
    /\ Walking("StartRecursiveDirectories")
    /\ Top.phase = "new"
    /\ Apply(IF Top.path # <<>> THEN Raises("TypeError")
             ELSE LET l == listdir(FS, DOT)
                  IN  IF ~l.ok THEN Raises("OSError")
                      ELSE [Continues([Top EXCEPT !.phase = "top",
                                                  !.ents = l.names,
                                                  !.scope = scopes + 1])
                            EXCEPT !.scoped = TRUE])

\* StartRecursiveDirectories.call: one round of its for loop, and past the
\* loop the start of call_with_stack
StartRecursiveDirectoriesEntry ==
    /\ Walking("StartRecursiveDirectories")
    /\ Top.phase = "top"
    /\ Apply(IF Top.ents = <<>>
             THEN [Calls([Top EXCEPT !.phase = "loop"], CallSwitched(Top, Top.path))
                   EXCEPT !.calls = ContCall(Top, Top.scope, Top.path, Top.path)]
             ELSE LET ent == Head(Top.ents)
                      rest == [Top EXCEPT !.ents = Tail(Top.ents)]
                  IN  IF isdir(FS, ent) /\ (allow_dots(flags) \/ ent[1] # ".")
                      THEN [Calls([rest EXCEPT !.stack = Append(Top.stack, ent)],
                                  CallNext(Top, ent))
                            EXCEPT !.calls = ContCall(Top, Top.scope, Top.path, ent),
                                   !.push = Pushed(Top.scope, ent)]
                      ELSE Continues(rest))

InStackLoop ==
    /\ pc = "run" /\ frames # <<>>
    /\ TopNode.kind \in {"RecursiveDirectories", "StartRecursiveDirectories"}
    /\ Top.phase = "loop"

\* call_with_stack: while stack: path = stack.pop(); os.listdir(path)
StackPop ==
    /\ InStackLoop
    /\ Top.ents = <<>>
    /\ Apply(IF Top.stack = <<>> THEN Returns
             ELSE LET path == Last(Top.stack)
                      l == listdir(FS, path)
                  IN  Continues([Top EXCEPT !.stack = Front(Top.stack),
                                            !.cur = path,
                                            !.intry = FALSE,
                                            !.ents = IF l.ok THEN l.names
                                                     ELSE <<>>]))

\* call_with_stack: one round of the for loop over the listing
StackEntry ==
    /\ InStackLoop
    /\ Top.ents # <<>>
    /\ Apply(LET ent == Head(Top.ents)
                 full == path_join(Top.cur, ent, Top.sep)
                 rest == [Top EXCEPT !.ents = Tail(Top.ents)]
             IN  IF isdir(FS, full) /\ (allow_dots(flags) \/ ent[1] # ".")
                 THEN [Calls([rest EXCEPT !.stack = Append(Top.stack, full),
                                          !.intry = TRUE],
                             CallNext(Top, full))
                       EXCEPT !.calls = ContCall(Top, Top.scope, Top.path, full),
                              !.push = Pushed(Top.scope, full)]
                 ELSE Continues([rest EXCEPT !.intry = FALSE]))

----------------------------------------------------------------------------
(* Glob.glob and Glob.run *)

UnchangedWalk == UNCHANGED <<frames, matches, owner, contcalls, pushes, scopes>>

Compiled(c) ==
    /\ expanded' = c.srcs
    /\ IF c.err = "none"
       THEN pc' = "run" /\ patterns' = c.chains /\ error' = error
       ELSE pc' = "raised" /\ patterns' = <<>> /\ error' = c.err
    /\ UNCHANGED <<pattern, flags, fsid, chainno, returned, retval>>
    /\ UnchangedWalk

\* glob: "{" in pattern -- patterns = self.compile(pattern, flags)
GlobCompile ==
    /\ pc = "start"
    /\ Find(pattern, "{") > -1
    /\ Compiled(compile(pattern, flags))

\* glob: else -- node = self.single_compile(pattern, flags)
GlobSingleCompile ==
    /\ pc = "start"
    /\ Find(pattern, "{") = -1
    /\ LET node == single_compile(pattern)
       IN  Compiled([err |-> node.err, srcs |-> <<pattern>>,
                     chains |-> IF node.err = "none" THEN <<node.chain>>
                                ELSE <<>>])

\* run: node.call(env, None) on the next chain
Run ==
    /\ pc = "run"
    /\ frames = <<>>
    /\ chainno < Len(patterns)
    /\ chainno' = chainno + 1
    /\ frames' = <<NewFrame(1, <<>>, patterns[chainno + 1][1].sep)>>
    /\ UNCHANGED <<pattern, flags, fsid, pc, error, expanded, patterns, matches,
                   owner, returned, retval, contcalls, pushes, scopes>>

\* what glob hands back: the brace branch ends without a return statement
GlobReturns(pat) == IF Find(pat, "{") > -1 THEN "None" ELSE "list"

Return ==
    /\ pc = "run"
    /\ frames = <<>>
    /\ chainno = Len(patterns)
    /\ pc' = "done"
    /\ returned' = GlobReturns(pattern)
    /\ retval' = IF GlobReturns(pattern) = "list" THEN matches ELSE <<>>
    /\ UNCHANGED <<pattern, flags, fsid, error, expanded, patterns, chainno>>
    /\ UnchangedWalk

----------------------------------------------------------------------------
(* The calls explored *)

P_Star == <<"*">>
P_Empty == <<>>
P_Brace == <<"a", "{", "b", ",", "c", "}", "d">>
P_Nested == <<"a", "{", "b", "{", "c", ",", "d", "}", ",", "e", "}", "f">>
P_Alt == <<"{", "x", "*", "?", "[", "d", "p", "]", "*", "}">>
P_Esc == <<"{", "\\", "?", "*", "}">>
P_RecX == <<"*", "*", "/", "x">>
P_RecXs == <<"*", "*", "/", "x", "*">>
P_RecDir == <<"*", "*", "/", "*", "/", "x", "*">>
P_RootRec == <<"/", "p", "/", "*", "*", "/", "*">>
P_Abc == <<"a", "/", "b", "/", "c", ".", "t", "x", "t">>
P_RelFold == <<"a", "/", "b", "/", "c", "*">>
P_AbsFold == <<"/", "a", "/", "/", "b", "/", "c", "*">>
P_AbStar == <<"/", "a", "b", "*", "/", "c", "*">>
P_FileDir == <<"/", "v", "/", "*", "/", "c", "*">>
P_DirsOnly == <<"*", "/">>
P_Deep == <<"*", "/", "*", "/", "*", "/">>

Patterns ==
    {P_Star, P_Empty, P_Brace, P_Nested, P_Alt, P_Esc, P_RecX, P_RecXs, P_RecDir,
     P_RootRec, P_Abc, P_RelFold, P_AbsFold, P_AbStar, P_FileDir, P_DirsOnly,
     P_Deep}

Flags == {0, FNM_NOESCAPE, FNM_DOTMATCH, FNM_NOESCAPE + FNM_DOTMATCH}

Init ==
    /\ pattern \in Patterns
    /\ flags \in Flags
    /\ fsid \in 1..Len(FileSystems)
    /\ pc = "start"
    /\ error = "none"
    /\ expanded = <<>>
    /\ patterns = <<>>
    /\ chainno = 0
    /\ frames = <<>>
    /\ matches = <<>>
    /\ owner = <<>>
    /\ returned = "pending"
    /\ retval = <<>>
    /\ contcalls = <<>>
    /\ pushes = <<>>
    /\ scopes = 0

Next ==
    \/ GlobCompile
    \/ GlobSingleCompile
    \/ Run
    \/ Return
    \/ RootDirectoryCall
    \/ ConstantDirectoryCall
    \/ EntryMatchCall
    \/ DirectoriesOnlyCall
    \/ DirectoryMatchCall
    \/ DirectoryMatchEntry
    \/ RecursiveDirectoriesCall
    \/ StartRecursiveDirectoriesCall
    \/ StartRecursiveDirectoriesEntry
    \/ StackPop
    \/ StackEntry

Spec == Init /\ [][Next]_vars

----------------------------------------------------------------------------
(* Reference definitions used by the properties *)

Finished == pc \in {"done", "raised"}
Range(s) == {s[i] : i \in 1..Len(s)}
WildChars == {"*", "?", "]"}
HasWild(s) == \E i \in 1..Len(s) : s[i] \in WildChars

\* the directories below entry id that a ** walk may descend to, as the path
\* strings the walk builds for them
RECURSIVE Below(_, _, _, _, _)
Below(fs, id, path, sep, dots) ==
    UNION { LET full == path_join(path, fs.ents[c].name, sep)
            IN  {full} \cup Below(fs, c, full, sep, dots)
            : c \in { k \in 1..Len(fs.ents) :
                        /\ fs.ents[k].parent = id
                        /\ fs.ents[k].kind = "dir"
                        /\ (dots \/ fs.ents[k].name[1] # ".") } }

ScopeCalls(s) == SelectSeq(contcalls, LAMBDA c : c.scope = s)
SeedId(seed) == IF seed = <<>> THEN FS.cwd ELSE Resolve(FS, seed).id
ExpectedCalls(c) ==
    {c.seed} \cup Below(FS, SeedId(c.seed), c.seed, c.sep, allow_dots(flags))

\* On a readable tree without links every finished ** step has invoked its
\* continuation once on the seed, once on every directory below it that is
\* reachable through admitted names, and nowhere else.
RecursiveTraversalExact ==
    (pc = "done" /\ ~HasLinks(FS) /\ AllReadable(FS)) =>
        \A s \in 1..scopes :
            LET cs == ScopeCalls(s)
            IN  /\ cs # <<>>
                /\ {cs[i].path : i \in 1..Len(cs)} = ExpectedCalls(cs[1])
                /\ Len(cs) = Cardinality(ExpectedCalls(cs[1]))

\* a ** step that had directories to descend to has finished
RecursiveTraversalSeen ==
    /\ pc = "done" /\ ~HasLinks(FS) /\ AllReadable(FS)
    /\ scopes > 0 /\ Len(contcalls) >= 4

\* the chain of a pattern of literal directory segments with one
\* ConstantDirectory node per segment (no folding)
RECURSIVE BuildUnfolded(_, _)
BuildUnfolded(parts, chain) ==
    IF parts = <<>> THEN chain
    ELSE LET dir == parts[Len(parts) - 1]
             rest == SubSeq(parts, 1, Len(parts) - 2)
             last == SetSeparator(chain, Last(parts))
         IN  IF Len(dir) > 0
             THEN BuildUnfolded(rest, <<Node("ConstantDirectory", dir)>> \o last)
             ELSE BuildUnfolded(rest, last)

UnfoldedCompile(glob) ==
    LET split == path_split(glob)
        leaf == LeafNode(glob, split.parts)
    IN  IF split.err # "none" THEN [err |-> split.err, chain |-> <<>>]
        ELSE IF leaf.err # "none" THEN [err |-> leaf.err, chain |-> <<>>]
        ELSE [err |-> "none",
              chain |-> (IF glob[1] = "/" THEN <<Node("RootDirectory", <<>>)>>
                         ELSE <<>>) \o BuildUnfolded(leaf.parts, leaf.chain)]

\* the matches of walking a chain of RootDirectory / ConstantDirectory nodes
\* down to its leaf
RECURSIVE WalkLiteral(_, _, _)
WalkLiteral(fs, chain, path) ==
    LET n == Head(chain)
    IN  IF n.kind = "RootDirectory" THEN WalkLiteral(fs, Tail(chain), SLASH)
        ELSE IF n.kind = "ConstantDirectory"
        THEN WalkLiteral(fs, Tail(chain), path_join(path, n.glob, n.sep))
        ELSE IF n.kind = "EntryMatch"
        THEN EntryMatchPaths(fs, path, n.glob, n.sep)
        ELSE DirectoriesOnlyPaths(fs, path)

\* every directory segment of the pattern is literal text
LiteralDirs(glob) ==
    LET split == path_split(glob)
        dirs == IF Last(glob) = "/" THEN split.parts ELSE Front(split.parts)
    IN  /\ glob # <<>> /\ Find(glob, "{") = -1
        /\ Len(dirs) >= 2
        /\ \A i \in 1..Len(dirs) : ~HasWild(dirs[i])

----------------------------------------------------------------------------
(* Properties *)

S_abd == <<"a", "b", "d">>
S_acd == <<"a", "c", "d">>
S_abcf == <<"a", "b", "c", "f">>
S_abdf == <<"a", "b", "d", "f">>
S_aef == <<"a", "e", "f">>

\* C1: compile expands a balanced brace group into one chain per
\* comma-separated alternative, left to right and recursively: "a{b,c}d" is
\* compiled from "abd" then "acd", "a{b{c,d},e}f" from "abcf", "abdf", "aef".
C1_BraceExpansion ==
    /\ (pc # "start" /\ pattern = P_Brace) => expanded = <<S_abd, S_acd>>
    /\ (pc # "start" /\ pattern = P_Nested) => expanded = <<S_abcf, S_abdf, S_aef>>

\* C2: glob returns the accumulated match list for every pattern, with or
\* without "{" in it.
C2_ReturnsMatches ==
    pc = "done" => (returned = "list" /\ retval = matches)

\* C3: on a tree without links a ** step invokes its continuation exactly
\* once on the seed and once on every directory below it reachable through
\* admitted names, and nowhere else; hence "**/x" yields x, p/x and p/q/x.
C3_RecursiveStep ==
    /\ RecursiveTraversalExact
    /\ (Finished /\ pattern = P_RecX /\ fsid = 1) =>
          /\ returned = "list"
          /\ {<<"x">>, <<"p", "/", "x">>, <<"p", "/", "q", "/", "x">>}
                \subseteq Range(retval)

\* C4: the ** worklist never holds a path that runs through a symbolic link,
\* and no directory is pushed twice within one ** scope.
C4_NoLinkDescent ==
    /\ \A i \in 1..Len(pushes) : ~ThroughLink(FS, pushes[i].path)
    /\ \A i, j \in 1..Len(pushes) :
          (i < j /\ pushes[i].scope = pushes[j].scope) =>
              Resolve(FS, PathOrDot(pushes[i].path)).id
                # Resolve(FS, PathOrDot(pushes[j].path)).id

\* C5: a directory-listing failure never leaves glob, whichever node kind is
\* walking when it happens.
C5_ListingFailureCaught ==
    error # "OSError"

\* C6: the empty pattern compiles to no chain and glob returns an empty list.
C6_EmptyPattern ==
    (Finished /\ pattern = P_Empty) =>
        (pc = "done" /\ patterns = <<>> /\ returned = "list" /\ retval = <<>>)

\* C7: a wildcard leaf matches a name starting with "." only under dot-match:
\* "*" without the flag returns no hidden name, with it returns them too.
C7_DotMatch ==
    (pc = "done" /\ pattern = P_Star) =>
        /\ HasFlag(flags, FNM_DOTMATCH) =>
              \A i \in 1..Len(listdir(FS, DOT).names) :
                  listdir(FS, DOT).names[i] \in Range(matches)
        /\ ~HasFlag(flags, FNM_DOTMATCH) =>
              \A i \in 1..Len(matches) : matches[i][1] # "."

ChainOrder(o) == \A i, j \in 1..Len(o) : i < j => o[i] <= o[j]

\* C8: every step leaves the previous match list as a prefix of the new one,
\* and all matches of chain i stand before all matches of chain i+1.
C8_AppendOnly ==
    [][/\ IsPrefix(matches, matches')
       /\ IsPrefix(owner, owner')
       /\ Len(owner') = Len(matches')
       /\ ChainOrder(owner')]_vars

\* two chains of one brace pattern have both appended matches
C8_TwoChainsAppended ==
    /\ pc = "done" /\ Len(patterns) >= 2
    /\ \E i, j \in 1..Len(owner) : owner[i] = 1 /\ owner[j] = 2
    /\ Len(matches) = Len(owner)

\* C9: for a pattern of literal directory segments the folded chain compiles
\* whenever the unfolded one does and yields the same ordered match list.
C9_FoldingEquivalent ==
    (Finished /\ LiteralDirs(pattern) /\ UnfoldedCompile(pattern).err = "none") =>
        /\ pc = "done"
        /\ matches = WalkLiteral(FS, UnfoldedCompile(pattern).chain, <<>>)

\* C10: a directory segment holding "*", "?" or "]" anywhere is never emitted
\* as, nor folded into, a ConstantDirectory.
C10_WildcardSegments ==
    \A c \in 1..Len(patterns) : \A n \in 1..Len(patterns[c]) :
        patterns[c][n].kind = "ConstantDirectory" => ~HasWild(patterns[c][n].glob)

====
